---- MODULE Spec2Model ----
(***************************************************************************)
(* A model of src/scraper/scrape.py: the price parser, the extraction      *)
(* strategies, the variant selector and the retry loop of scrape_all.      *)
(* Text is a sequence of one-character strings; a parsed price is a        *)
(* decimal [m |-> mantissa, e |-> number of decimal digits] in canonical   *)
(* form (no trailing zero in the fraction), which is how two Python floats *)
(* read from short decimal strings compare.                                *)
(***************************************************************************)
EXTENDS Integers, Sequences, FiniteSets, TLC

\* An optional value (Optional[float], Optional[str]): Python's None is the
\* empty tuple, a value v is <<v>>.
None == <<>>

Some(v) == <<v>>

Val(o) == o[1]

\* JSON values: null, a string, a list of values, a dict of keyed values in
\* stored order.
JNull == [kind |-> "null"]

JStr(t) == [kind |-> "str", text |-> t]

JList(vs) == [kind |-> "list", items |-> vs]

JDict(kvs) == [kind |-> "dict", items |-> kvs]

----------------------------------------------------------------------------
\* Characters

Digits == {"0", "1", "2", "3", "4", "5", "6", "7", "8", "9"}

DigitVal(c) ==
  CASE c = "0" -> 0 [] c = "1" -> 1 [] c = "2" -> 2 [] c = "3" -> 3
    [] c = "4" -> 4 [] c = "5" -> 5 [] c = "6" -> 6 [] c = "7" -> 7
    [] c = "8" -> 8 [] c = "9" -> 9

\* The three no-break/narrow spaces normalize_price_text replaces by " ".
NBSP == "nbsp"
NNBSP == "nnbsp"
THINSP == "thinsp"
UnicodeSpaces == {NBSP, NNBSP, THINSP}

\* What the regex class \s matches among the characters of the model.
Whitespace == {" "} \cup UnicodeSpaces

\* The rupee sign, one character.
Rupee == "Rs"

IsDigit(c) == c \in Digits
IsSpace(c) == c \in Whitespace
IsSep(c) == c \in {",", "."}

Max(S) == CHOOSE x \in S : \A y \in S : y <= x

----------------------------------------------------------------------------
\* Decimal values: what float(t) is for a string of digits and one "."

RECURSIVE Canon(_, _)
Canon(m, e) ==
  IF e > 0 /\ m % 10 = 0 THEN Canon(m \div 10, e - 1) ELSE [m |-> m, e |-> e]

Dec(m, e) == Canon(m, e)

RECURSIVE NatOf(_)
NatOf(ds) ==
  IF ds = <<>> THEN 0
  ELSE 10 * NatOf(SubSeq(ds, 1, Len(ds) - 1)) + DigitVal(ds[Len(ds)])

RECURSIVE Pow10(_)
Pow10(n) == IF n = 0 THEN 1 ELSE 10 * Pow10(n - 1)

\* A float() that reads a text without a digit as zero.
FloatOf_EmptyIsZero(t) ==
  LET dots == {i \in 1..Len(t) : t[i] = "."}
      digs == SelectSeq(t, IsDigit)
  IN  IF \/ Cardinality(dots) > 1
         \/ \E i \in 1..Len(t) : ~IsDigit(t[i]) /\ t[i] # "."
      THEN None
      ELSE Some(Canon(NatOf(digs),
                      IF dots = {} THEN 0 ELSE Len(t) - (CHOOSE i \in dots : TRUE)))

\* float(t) of line 82, None where Python raises ValueError (line 83):
\* digits with at most one ".", at least one digit.
FloatOf(t) ==
  LET dots == {i \in 1..Len(t) : t[i] = "."}
      digs == SelectSeq(t, IsDigit)
  IN  IF \/ Cardinality(dots) > 1
         \/ digs = <<>>
         \/ \E i \in 1..Len(t) : ~IsDigit(t[i]) /\ t[i] # "."
      THEN None
      ELSE Some(Canon(NatOf(digs),
                      IF dots = {} THEN 0 ELSE Len(t) - (CHOOSE i \in dots : TRUE)))

\* A threshold that lets 100 itself through.
GreaterThan100_OrEqual(p) == p.m \div Pow10(p.e) >= 100

\* v > 100 for a decimal v (line 158), without scaling 100 up.
GreaterThan100(p) ==
  LET ip == p.m \div Pow10(p.e)
      fr == p.m % Pow10(p.e)
  IN  ip > 100 \/ (ip = 100 /\ fr > 0)

\* Python truthiness of a float: 0.0 is falsy.
Truthy(p) == p # None /\ Val(p).m # 0

----------------------------------------------------------------------------
\* normalize_price_text and parse_price

ReplaceNbsp(c) == IF c \in UnicodeSpaces THEN " " ELSE c

KeepPriceChar(c) == IsDigit(c) \/ IsSep(c) \/ IsSpace(c)

NotSpace(c) == ~IsSpace(c)

normalize_price_text(txt) ==
  IF txt = <<>> THEN <<>>
  ELSE LET a == [i \in 1..Len(txt) |-> ReplaceNbsp(txt[i])]
           b == SelectSeq(a, KeepPriceChar)
       IN  SelectSeq(b, NotSpace)

\* str.rfind, 1-based: 0 when the character is absent.
rfind(t, c) ==
  LET idx == {i \in 1..Len(t) : t[i] = c}
  IN  IF idx = {} THEN 0 ELSE Max(idx)

NotSep(c) == ~IsSep(c)

\* str.isdigit: non-empty and all digits.
isdigit(s) == s # <<>> /\ \A i \in 1..Len(s) : IsDigit(s[i])

\* A parse_price whose decimal comma wants three digits after it.
EndsCommaThreeDigits(t) ==
  /\ Len(t) >= 4
  /\ t[Len(t) - 3] = ","
  /\ \A i \in (Len(t) - 2)..Len(t) : IsDigit(t[i])

\* re.search(r",\d{2}$", t)
EndsCommaTwoDigits(t) ==
  /\ Len(t) >= 3
  /\ t[Len(t) - 2] = ","
  /\ IsDigit(t[Len(t) - 1])
  /\ IsDigit(t[Len(t)])

CommaToDot(c) == IF c = "," THEN "." ELSE c

NotDot(c) == c # "."

NotComma(c) == c # ","

\* A parse_price that splits at the first of the two separators.
LastSep_First(t) ==
  LET a == rfind(t, ",")
      b == rfind(t, ".")
  IN  IF a < b THEN a ELSE b

\* The separator parse_price takes for the decimal point when both occur.
LastSep(t) == Max({rfind(t, ","), rfind(t, ".")})

\* The rewriting of lines 69-79.
Rewrite(t) ==
  IF rfind(t, ",") > 0 /\ rfind(t, ".") > 0
  THEN LET last_sep == LastSep(t)
           integer == SelectSeq(SubSeq(t, 1, last_sep - 1), NotSep)
           decimal == SubSeq(t, last_sep + 1, Len(t))
       IN  IF isdigit(decimal) THEN integer \o <<".">> \o decimal ELSE integer
  ELSE IF rfind(t, ",") > 0
       THEN IF EndsCommaTwoDigits(t)
            THEN LET u == SelectSeq(t, NotDot)
                 IN  [i \in 1..Len(u) |-> CommaToDot(u[i])]
            ELSE SelectSeq(t, NotComma)
       ELSE t

parse_price(txt) ==
  IF txt = <<>> THEN None
  ELSE LET t == normalize_price_text(txt)
       IN  IF t = <<>> THEN None ELSE FloatOf(Rewrite(t))

----------------------------------------------------------------------------
\* Text helpers: str.strip, str.lower, substring test, slugify

UpperLetters ==
  <<"A", "B", "C", "D", "E", "F", "G", "H", "I", "J", "K", "L", "M",
    "N", "O", "P", "Q", "R", "S", "T", "U", "V", "W", "X", "Y", "Z">>

LowerLetters ==
  <<"a", "b", "c", "d", "e", "f", "g", "h", "i", "j", "k", "l", "m",
    "n", "o", "p", "q", "r", "s", "t", "u", "v", "w", "x", "y", "z">>

Range(f) == {f[i] : i \in DOMAIN f}

LowerChar(c) ==
  IF c \in Range(UpperLetters)
  THEN LowerLetters[CHOOSE i \in 1..26 : UpperLetters[i] = c]
  ELSE c

Lower(s) == [i \in 1..Len(s) |-> LowerChar(s[i])]

\* The regex class \w.
IsWord(c) == c \in Range(UpperLetters) \cup Range(LowerLetters) \cup Digits \cup {"_"}

\* A scrape_all that does not strip the URL.
Strip_Nothing(s) == s

RECURSIVE LStrip(_)
LStrip(s) == IF s # <<>> /\ IsSpace(s[1]) THEN LStrip(Tail(s)) ELSE s

RECURSIVE RStrip(_)
RStrip(s) ==
  IF s # <<>> /\ IsSpace(s[Len(s)]) THEN RStrip(SubSeq(s, 1, Len(s) - 1)) ELSE s

Strip(s) == RStrip(LStrip(s))

\* needle in txt
Contains(txt, needle) ==
  \E k \in 0..(Len(txt) - Len(needle)) : SubSeq(txt, k + 1, k + Len(needle)) = needle

SlugKeep(c) == IsWord(c) \/ IsSpace(c) \/ c = "-"

\* re.sub(r"[\s]+", "_", s): every maximal run of whitespace becomes one "_".
RECURSIVE SpacesToUnderscore(_)
SpacesToUnderscore(s) ==
  IF s = <<>> THEN <<>>
  ELSE IF IsSpace(s[1])
       THEN <<"_">> \o SpacesToUnderscore(LStrip(s))
       ELSE <<s[1]>> \o SpacesToUnderscore(Tail(s))

SlugMaxLen == 100

slugify(s) ==
  LET a == SelectSeq(s, SlugKeep)
      b == SpacesToUnderscore(Strip(a))
  IN  SubSeq(b, 1, IF Len(b) < SlugMaxLen THEN Len(b) ELSE SlugMaxLen)

----------------------------------------------------------------------------
\* The parser's inputs

MaxLen == 8
MaxShort == 3

\* Price-shaped text: two digits and the two separators, up to MaxLen long.
PriceAlphabet == {"0", "7", ",", "."}

\* Arbitrary text: also spaces, a currency sign and a letter, up to MaxShort.
TextAlphabet == PriceAlphabet \cup {" ", NBSP, Rupee, "x"}

SeqsUpTo(A, n) == UNION {[1..k -> A] : k \in 0..n}

ParserInputs == SeqsUpTo(PriceAlphabet, MaxLen) \cup SeqsUpTo(TextAlphabet, MaxShort)

VARIABLES
  ptxt,      \* the text parse_price is called on
  pres,      \* whether it has been called, and what it returned
  html,      \* the markup get_price_from_pagesource reads
  page_res,  \* whether it has been called, and what it returned
  obj,       \* the JSON value find_price_in_obj is called on
  found      \* whether it has been called, and what it returned

pvars == <<ptxt, pres, html, page_res, obj, found>>



----------------------------------------------------------------------------
\* Configuration: locators/websites.json and data/products.json

MAX_RETRIES == 3

DEFAULT_CURRENCY == "INR"

Flipkart == <<"F", "l", "i", "p", "k", "a", "r", "t">>
MuscleBlaze == <<"M", "u", "s", "c", "l", "e", "B", "l", "a", "z", "e">>
Amazon == <<"A", "m", "a", "z", "o", "n">>

\* Line 336: the sites whose pages need a variant click.
VariantSites == {Flipkart, MuscleBlaze}

xpath == <<"x", "p", "a", "t", "h">>
css == <<"c", "s", "s">>

\* The keys of LOCATOR_MAP (line 207).
LOCATOR_MAP == {xpath, css}

\* locator_cfg: one entry per website, in file order.  Flipkart uses the
\* "locators" list (one entry of an unknown type, one in upper case), Amazon
\* the single locator_type/locator_value pair.
locator_cfg ==
  << [website_name |-> Flipkart,
      site_cfg |-> [locators |-> Some(<< [locator_type |-> Some(css),
                                          locator_value |-> Some(<<".", "p">>)],
                                         [locator_type |-> Some(<<"i", "d">>),
                                          locator_value |-> Some(<<"p">>)],
                                         [locator_type |-> Some(<<"X", "P", "A", "T", "H">>),
                                          locator_value |-> Some(<<"/", "/", "b">>)] >>),
                    locator_type |-> None,
                    locator_value |-> None]],
     [website_name |-> Amazon,
      site_cfg |-> [locators |-> None,
                    locator_type |-> Some(xpath),
                    locator_value |-> Some(<<"/", "/", "a">>)]] >>

NumSites == Len(locator_cfg)

ensure_locators_schema(site_cfg) ==
  IF site_cfg.locators # None THEN Val(site_cfg.locators)
  ELSE IF /\ site_cfg.locator_type # None /\ Val(site_cfg.locator_type) # <<>>
          /\ site_cfg.locator_value # None /\ Val(site_cfg.locator_value) # <<>>
       THEN << [locator_type |-> site_cfg.locator_type,
                locator_value |-> site_cfg.locator_value] >>
       ELSE <<>>

\* x or "" for an optional string x.
OrEmpty(x) == IF x = None THEN <<>> ELSE Val(x)

\* A get_price that looks up a locator of any type.
LocatorUsable_AnyType(loc) == OrEmpty(loc.locator_value) # <<>>

\* Lines 228-230: whether get_price looks the locator up at all.
LocatorUsable(loc) ==
  /\ Lower(OrEmpty(loc.locator_type)) \in LOCATOR_MAP
  /\ OrEmpty(loc.locator_value) # <<>>

\* The product names of products.json, in file order.
ProductNames ==
  << <<"W", "h", "e", "y", " ", "|", " ", "2", " ", "k", "g", " ", "|", " ",
       "C", "h", "o", "c", "o">>,
     <<"O", "a", "t", "s", "!">> >>

NumProducts == Len(ProductNames)

\* What products.json may hold for a product and a website: no entry (or
\* null), an empty or blank string, a URL with blanks around it.
Url == <<"h", ":", "/", "/", "s">>

Missing == None
Blank == Some(<<" ", NBSP>>)
Padded == Some(<<" ">> \o Url \o <<" ">>)

\* The products.json files of the model: product -> website -> URL.
ProductFiles ==
  { << <<Padded, Padded>>, <<Missing, Blank>> >>,
    << <<Blank, Padded>>, <<Padded, Missing>> >>,
    << <<Missing, Some(<<>>)>>, <<Padded, Padded>> >>,
    << <<Padded, Blank>>, <<Missing, Padded>> >> }

----------------------------------------------------------------------------
\* extract_variant_needles

Min(S) == CHOOSE x \in S : \A y \in S : x <= y

\* re.search(r"\b<d>\s*<u1><u2>\b", name, re.I)
HasSizeToken(name, d, u) ==
  \E i \in 1..Len(name) : \E j \in (i + 1)..(Len(name) - 1) :
    /\ name[i] = d
    /\ i = 1 \/ ~IsWord(name[i - 1])
    /\ \A k \in (i + 1)..(j - 1) : IsSpace(name[k])
    /\ LowerChar(name[j]) = u[1]
    /\ LowerChar(name[j + 1]) = u[2]
    /\ j + 1 = Len(name) \/ ~IsWord(name[j + 2])

RECURSIVE Split(_, _)
Split(s, sep) ==
  LET idx == {i \in 1..Len(s) : s[i] = sep}
  IN  IF idx = {} THEN <<s>>
      ELSE <<SubSeq(s, 1, Min(idx) - 1)>> \o Split(SubSeq(s, Min(idx) + 1, Len(s)), sep)

FlavorKeys ==
  { <<"c", "h", "o", "c">>, <<"v", "a", "n">>, <<"c", "o", "o", "k", "i", "e">>,
    <<"s", "t", "r", "a", "w">>, <<"h", "a", "z", "e", "l">>,
    <<"m", "a", "n", "g", "o">>, <<"c", "o", "f", "f", "e", "e">> }

\* Lines 196-200: the last "|" part that names a flavour.
FlavorNeedle(product_name) ==
  LET raw_parts == Split(product_name, "|")
      parts == [i \in 1..Len(raw_parts) |-> Strip(raw_parts[i])]
      hits == {i \in 1..Len(parts) : \E k \in FlavorKeys : Contains(Lower(parts[i]), k)}
  IN  IF hits = {} THEN <<>> ELSE <<Strip(parts[Max(hits)])>>

extract_variant_needles(product_name) ==
  (IF HasSizeToken(product_name, "2", <<"k", "g">>)
   THEN << <<"2", " ", "k", "g">>, <<"2", "k", "g">>,
           <<"4", ".", "4", " ", "l", "b">>, <<"4", ".", "4", "l", "b">> >>
   ELSE <<>>)
  \o
  (IF HasSizeToken(product_name, "1", <<"k", "g">>)
   THEN << <<"1", " ", "k", "g">>, <<"1", "k", "g">>,
           <<"2", ".", "2", " ", "l", "b">>, <<"2", ".", "2", "l", "b">> >>
   ELSE <<>>)
  \o
  (IF HasSizeToken(product_name, "5", <<"l", "b">>)
   THEN << <<"5", " ", "l", "b">>, <<"5", "l", "b">>,
           <<"2", ".", "2", "7", " ", "k", "g">>, <<"2", ".", "2", "7", "k", "g">> >>
   ELSE <<>>)
  \o FlavorNeedle(product_name)

NonEmpty(n) == n # <<>>

\* Lines 165 and 168: the needles click_variant_if_found matches with.
LowerNeedles(needles) ==
  LET kept == SelectSeq(needles, NonEmpty)
  IN  [i \in 1..Len(kept) |-> Lower(kept[i])]

\* Lines 179-180: whether an element's text names one of the needles.
TextMatches(text, needles) ==
  \E i \in 1..Len(needles) : Contains(Lower(Strip(text)), needles[i])

----------------------------------------------------------------------------
\* What the page provider (the Selenium driver) can answer

\* The exception classes a driver call raises.
ErrorKinds == {"TimeoutException", "WebDriverException"}

Raises == [raises |-> TRUE]

T999 == <<"9", "9", "9">>
T899 == <<" ", "8", "9", "9">>
TBad == <<"N", "A">>

\* The texts found in price fields, meta attributes and located elements.
RawTexts == {T999, T899, TBad}

MaxCands == 2

\* A query that finds price candidates in document order, or raises.
QueryResponses ==
  {Raises} \cup {[raises |-> FALSE, cands |-> c] : c \in SeqsUpTo(RawTexts, MaxCands)}

\* A located element: the wait or the text read raises, or the text.
ElementResponses ==
  {Raises} \cup {[raises |-> FALSE, text |-> t] : t \in RawTexts \cup {<<>>}}

\* The number the page-source regex captures, if it matches.
NumTexts == {T999, <<"5", "0">>, <<",">>}

MarkupResponses ==
  {[raises |-> TRUE, kind |-> k] : k \in ErrorKinds}
  \cup {[raises |-> FALSE, num |-> n] : n \in {None} \cup {Some(t) : t \in NumTexts}}

NoPrice == [p |-> None, raw |-> None]

\* The first candidate that parses, with the text it was parsed from.
FirstParseable(cands) ==
  LET ok == {i \in 1..Len(cands) : parse_price(cands[i]) # None}
  IN  IF ok = {} THEN NoPrice
      ELSE [p |-> parse_price(cands[Min(ok)]), raw |-> Some(cands[Min(ok)])]

\* The keys find_price_in_obj looks at.
PriceKey == <<"p", "r", "i", "c", "e">>
OffersKey == <<"o", "f", "f", "e", "r", "s">>
TypeKey == <<"@", "t", "y", "p", "e">>
Offer == <<"O", "f", "f", "e", "r">>

\* key in obj, and obj.get(key) for a key that is in it.
HasKey(o, k) == \E i \in 1..Len(o.items) : o.items[i].key = k

Get(o, k) == o.items[CHOOSE i \in 1..Len(o.items) : o.items[i].key = k].value

\* repr(v) and str(v) of a parsed JSON value, as Python prints them.
RECURSIVE repr(_)
RECURSIVE ReprItems(_)
RECURSIVE ReprEntries(_)
repr(v) ==
  CASE v.kind = "str" -> <<"'">> \o v.text \o <<"'">>
    [] v.kind = "null" -> <<"N", "o", "n", "e">>
    [] v.kind = "list" -> <<"[">> \o ReprItems(v.items) \o <<"]">>
    [] v.kind = "dict" -> <<"{">> \o ReprEntries(v.items) \o <<"}">>

ReprItems(vs) ==
  IF vs = <<>> THEN <<>>
  ELSE repr(vs[1]) \o (IF Len(vs) > 1 THEN <<",", " ">> \o ReprItems(Tail(vs)) ELSE <<>>)

ReprEntries(kvs) ==
  IF kvs = <<>> THEN <<>>
  ELSE <<"'">> \o kvs[1].key \o <<"'", ":", " ">> \o repr(kvs[1].value)
       \o (IF Len(kvs) > 1 THEN <<",", " ">> \o ReprEntries(Tail(kvs)) ELSE <<>>)

str(v) == IF v.kind = "str" THEN v.text ELSE repr(v)

\* A find_price_in_obj that goes through the children last to first.
Children_Reversed(o) ==
  IF o.kind = "dict"
  THEN [i \in 1..Len(o.items) |-> o.items[Len(o.items) + 1 - i].value]
  ELSE [i \in 1..Len(o.items) |-> o.items[Len(o.items) + 1 - i]]

\* obj.values() of a dict (line 98), the items of a list (line 103), in
\* stored order.
Children(o) ==
  IF o.kind = "dict" THEN [i \in 1..Len(o.items) |-> o.items[i].value] ELSE o.items

\* Lines 88-107; the None it returns is NoPrice.
RECURSIVE find_price_in_obj(_)
RECURSIVE FirstGot(_)
find_price_in_obj(o) ==
  IF o.kind = "dict"
  THEN LET priced == HasKey(o, PriceKey)
           offer == \/ HasKey(o, TypeKey) /\ Get(o, TypeKey) = JStr(Offer)
                    \/ HasKey(o, OffersKey)
           p == IF priced THEN parse_price(str(Get(o, PriceKey))) ELSE None
           own == [p |-> p, raw |-> Some(str(Get(o, PriceKey)))]
       IN  IF offer /\ priced /\ p # None THEN own
           ELSE IF priced /\ p # None THEN own
           ELSE FirstGot(Children(o))
  ELSE IF o.kind = "list" THEN FirstGot(Children(o))
  ELSE NoPrice

\* The loops of lines 98-101 and 103-106: the first child with a result.
FirstGot(vs) ==
  IF vs = <<>> THEN NoPrice
  ELSE LET got == find_price_in_obj(vs[1])
       IN  IF got # NoPrice THEN got ELSE FirstGot(Tail(vs))

MaxNodes == 5

MaxKids == 2

\* The JSON values of the model are strings that parse and one that does
\* not, and lists of up to MaxKids values and dicts over two keys, of up to
\* MaxNodes values in all.
Scalars == {JStr(T999), JStr(T899), JStr(TBad)}

KeySeqs(n) ==
  {ks \in [1..n -> {PriceKey, OffersKey}] : \A i, j \in 1..n : ks[i] = ks[j] => i = j}

\* The dict that holds the values vs under the keys ks.
Keyed(ks, vs) == JDict([i \in 1..Len(vs) |-> [key |-> ks[i], value |-> vs[i]]])

\* The sequences of up to w values, of n values in all, levels[k] being the
\* values of k values.
RECURSIVE Forests(_, _, _)
Forests(levels, n, w) ==
  IF n = 0 THEN {<<>>}
  ELSE IF w = 0 THEN {}
  ELSE UNION { {<<t>> \o f : t \in levels[k], f \in Forests(levels, n - k, w - 1)} :
               k \in 1..n }

\* The values of 1, 2, .. n values: a string, or a list or a dict that
\* holds n - 1 values in all, one at least.
RECURSIVE TreeLevels(_)
TreeLevels(n) ==
  IF n = 1 THEN <<Scalars>>
  ELSE LET levels == TreeLevels(n - 1)
           fs == Forests(levels, n - 1, MaxKids)
       IN  Append(levels,
                  {JList(f) : f \in fs}
                  \cup UNION { {Keyed(ks, f) : ks \in KeySeqs(Len(f))} : f \in fs })

\* A first value of k values with the values after it, m values in all.
FirstAndRest(levels, k, m) == levels[k] \X Forests(levels, m, MaxKids - 1)

\* Lines 109-131: any exception of the script lookup is swallowed.
get_price_from_jsonld(r) ==
  IF r.raises THEN NoPrice ELSE FirstParseable(r.cands)

\* Lines 140-147, one selector: an exception moves on to the next selector.
MetaSelector(r) ==
  IF r.raises THEN NoPrice ELSE FirstParseable(r.cands)

NumMetaSelectors == 3

\* Lines 232-243, one locator.
LocatedElement(r) ==
  IF r.raises THEN NoPrice
  ELSE LET raw == Strip(r.text)
       IN  IF parse_price(raw) # None
           THEN [p |-> parse_price(raw), raw |-> Some(raw)]
           ELSE NoPrice

\* Lines 155-160 on what the regexes matched.
get_price_from_pagesource(r) ==
  IF r.num = None THEN NoPrice
  ELSE LET p == parse_price(Val(r.num))
       IN  IF Truthy(p) /\ GreaterThan100(Val(p))
           THEN [p |-> p, raw |-> Some(<<Rupee>> \o Val(r.num))]
           ELSE NoPrice

\* The keywords of the first regex of line 152, matched in any case (re.I).
Keywords ==
  { <<"s", "e", "l", "l", "i", "n", "g">>, <<"o", "f", "f", "e", "r">>,
    <<"f", "i", "n", "a", "l">>, <<"d", "e", "a", "l">> }

\* [^₹]{0,80}: how far after the keyword the rupee sign may stand.
KeywordGap == 80

\* [\d,]+(?:\.\d{1,2})? matched greedily from position i of h: the position
\* of its last character, 0 when it does not match there.
NumberEnd(h, i) ==
  IF i > Len(h) \/ ~(IsDigit(h[i]) \/ h[i] = ",") THEN 0
  ELSE LET e == Max({j \in i..Len(h) : \A k \in i..j : IsDigit(h[k]) \/ h[k] = ","})
       IN  IF e + 2 <= Len(h) /\ h[e + 1] = "." /\ IsDigit(h[e + 2])
           THEN IF e + 3 <= Len(h) /\ IsDigit(h[e + 3]) THEN e + 3 ELSE e + 2
           ELSE e

\* ₹\s*([\d,]+(?:\.\d{1,2})?) matched at the rupee sign of position i: the
\* number it captures, None when it does not match there.
CurrencyNumber(h, i) ==
  LET s == Min({j \in (i + 1)..(Len(h) + 1) : j = Len(h) + 1 \/ ~IsSpace(h[j])})
      e == NumberEnd(h, s)
  IN  IF e = 0 THEN None ELSE Some(SubSeq(h, s, e))

\* re.search of the second regex (line 154): the leftmost match.
FirstCurrencyNumber(h) ==
  LET hits == {i \in 1..Len(h) : h[i] = Rupee /\ CurrencyNumber(h, i) # None}
  IN  IF hits = {} THEN None ELSE CurrencyNumber(h, Min(hits))

\* The first regex (line 152) matched at position i: the keyword as written
\* (its group 1) and the number after the first rupee sign that follows
\* within KeywordGap characters (its group 2); None when it does not match.
KeywordMatch(h, i) ==
  LET c == LowerChar(h[i])
      ks == {k \in Keywords :
               /\ k[1] = c
               /\ i + Len(k) - 1 <= Len(h)
               /\ Lower(SubSeq(h, i, i + Len(k) - 1)) = k}
  IN  IF ks = {} THEN None
      ELSE LET q == i + Len(CHOOSE k \in ks : TRUE)
               rs == {r \in q..Len(h) : h[r] = Rupee}
           IN  IF rs = {} THEN None
               ELSE IF Min(rs) - q > KeywordGap THEN None
               ELSE IF CurrencyNumber(h, Min(rs)) = None THEN None
               ELSE Some([keyword |-> SubSeq(h, i, q - 1),
                          number |-> Val(CurrencyNumber(h, Min(rs)))])

\* re.search of the first regex (line 152): the leftmost match.
KeywordSearch(h) ==
  LET hits == {i \in 1..Len(h) : KeywordMatch(h, i) # None}
  IN  IF hits = {} THEN None ELSE KeywordMatch(h, Min(hits))

\* Lines 152-156: m.group(1) of the regex that matched, the first regex
\* tried first.  Group 1 of the first regex is the keyword.
Group1(h) ==
  LET m == KeywordSearch(h)
  IN  IF m # None THEN Some(Val(m).keyword) ELSE FirstCurrencyNumber(h)

\* Lines 150-160 on a markup that is read without an exception.
ReadPageSource(h) == get_price_from_pagesource([raises |-> FALSE, num |-> Group1(h)])

RECURSIVE Flatten(_)
Flatten(ss) == IF ss = <<>> THEN <<>> ELSE ss[1] \o Flatten(Tail(ss))

MaxSegs == 4

\* The digits a markup has in all.
MaxDigits == 8

\* The pieces markups are made of: keywords, the rupee sign, blanks,
\* numbers around the threshold, a fraction, and text as long as the gap.
Segments ==
  { <<"d", "e", "a", "l">>, <<"O", "f", "f", "e", "r">>, <<Rupee>>, <<" ">>,
    T999, <<"5", "0">>, <<"1", "0", "0">>, <<".", "5">>, <<",">>, <<"x">>,
    [i \in 1..KeywordGap |-> "x"] }

\* What an element of the variant search does: reading its text raises, or
\* it has a text; scrolling to it or clicking it may raise.
ElemTexts == {<<" ", "2", " ", "K", "G">>, <<"B", "u", "y">>}

ElemBehaviours ==
  {[text_raises |-> TRUE]}
  \cup {[text_raises |-> FALSE, text |-> t, script_raises |-> s, click_raises |-> c] :
          t \in ElemTexts, s \in BOOLEAN, c \in BOOLEAN}

MaxElems == 6

VARIANT_CLICK_CAP == 5

\* A backoff that is not linear in the attempt number.
SleepTenths_Constant(n) == 15

\* 1.5 * attempt seconds (line 361), in tenths of a second.
SleepTenths(n) == 15 * n

----------------------------------------------------------------------------
\* scrape_all

VARIABLES
  products,      \* products.json: product -> website -> optional URL
  pidx, sidx,    \* the product and the website the two loops are at
  pc,            \* where scrape_all is
  product_data,  \* the results of the current product, in website order
  results,       \* the product_data of the products done
  product_url, status, price_value, raw_text, attempt,
  loop_i,        \* the selector, locator or element an inner loop is at
  elems, tried,  \* click_variant_if_found: elements found, clicks done
  \* What the pair being processed has done so far (empty between pairs):
  events,        \* its driver.get and sleep calls, in order
  ops,           \* the kinds of driver calls made for it
  consulted,     \* the strategies its current attempt called, with results
  outcomes,      \* how each of its attempts ended
  captures,      \* its debug artifacts
  steps,         \* the kinds of steps its current attempt has taken, in order
  clicks,        \* the el.click() calls of the variant selection under way
  loc_log        \* what the locators of the get_price call under way gave

cfgvars == <<products>>
posvars == <<pidx, sidx, product_data, results>>
loopvars == <<loop_i, elems, tried>>
attemptvars == <<steps, clicks, loc_log>>
ghostvars == <<events, ops, consulted, outcomes, captures, attemptvars>>
ovars ==
  <<products, pidx, sidx, pc, product_data, results, product_url, status,
    price_value, raw_text, attempt, loop_i, elems, tried, events, ops,
    consulted, outcomes, captures, steps, clicks, loc_log>>

\* The steps of an attempt, each kind listed when it first happens.
AddStep(ss, k) == IF \E i \in 1..Len(ss) : ss[i] = k THEN ss ELSE Append(ss, k)

vars == <<ovars, pvars>>

\* The needles of each product (lines 338, 165 and 168).
lower_needles == [i \in 1..NumProducts |-> LowerNeedles(extract_variant_needles(ProductNames[i]))]

website_name == locator_cfg[sidx].website_name
product_name == ProductNames[pidx]
locs == ensure_locators_schema(locator_cfg[sidx].site_cfg)

Result(st, pv, rw, link) ==
  [status |-> st, currency |-> DEFAULT_CURRENCY, price_value |-> pv,
   raw |-> rw, link |-> link]

\* Lines 373-382 and the two loop heads: store the pair's result, go to the
\* next website, or store the product's results and go to the next product.
Advance(rec) ==
  IF sidx < NumSites
  THEN /\ product_data' = Append(product_data, rec)
       /\ sidx' = sidx + 1
       /\ pc' = "pair"
       /\ UNCHANGED <<results, pidx>>
  ELSE /\ results' = Append(results, Append(product_data, rec))
       /\ product_data' = <<>>
       /\ sidx' = 1
       /\ pidx' = pidx + 1
       /\ pc' = IF pidx < NumProducts THEN "pair" ELSE "done"

\* A handler that keeps the kind of the first failure.
Fail_KeepsFirstKind(kind, evs) ==
  /\ status' = IF outcomes = <<>> THEN "error:" \o kind ELSE status
  /\ events' = Append(evs, [ev |-> "sleep", n |-> SleepTenths(attempt)])
  /\ outcomes' = Append(outcomes, kind)
  /\ IF attempt < MAX_RETRIES
     THEN attempt' = attempt + 1 /\ pc' = "load"
     ELSE attempt' = attempt /\ pc' = "capture"
  /\ UNCHANGED <<price_value, raw_text>>

\* Lines 359-361 and the loop head of line 332: the attempt raised.
Fail(kind, evs) ==
  /\ status' = "error:" \o kind
  /\ events' = Append(evs, [ev |-> "sleep", n |-> SleepTenths(attempt)])
  /\ outcomes' = Append(outcomes, kind)
  /\ IF attempt < MAX_RETRIES
     THEN attempt' = attempt + 1 /\ pc' = "load"
     ELSE attempt' = attempt /\ pc' = "capture"
  /\ UNCHANGED <<price_value, raw_text>>

\* An attempt whose status is "ok" whatever it found.
Complete_AlwaysOk(p, raw) ==
  /\ price_value' = p
  /\ raw_text' = raw
  /\ status' = "ok"
  /\ outcomes' = Append(outcomes, "completed")
  /\ pc' = "record"
  /\ UNCHANGED <<attempt, events>>

\* An attempt that sends a page without a price to the capture.
Complete_CaptureOnMiss(p, raw) ==
  /\ price_value' = p
  /\ raw_text' = raw
  /\ status' = IF p # None THEN "ok" ELSE "price_not_found"
  /\ outcomes' = Append(outcomes, "completed")
  /\ pc' = IF p # None THEN "record" ELSE "capture"
  /\ UNCHANGED <<attempt, events>>

\* An attempt that retries a page without a price while attempts are left.
Complete_RetriesOnMiss(p, raw) ==
  /\ price_value' = p
  /\ raw_text' = raw
  /\ status' = IF p # None THEN "ok" ELSE "price_not_found"
  /\ outcomes' = Append(outcomes, "completed")
  /\ IF p = None /\ attempt < MAX_RETRIES
     THEN attempt' = attempt + 1 /\ pc' = "load"
     ELSE attempt' = attempt /\ pc' = "record"
  /\ UNCHANGED events

\* Lines 356-358: the attempt ran to its end with p and raw.
Complete(p, raw) ==
  /\ price_value' = p
  /\ raw_text' = raw
  /\ status' = IF p # None THEN "ok" ELSE "price_not_found"
  /\ outcomes' = Append(outcomes, "completed")
  /\ pc' = "record"
  /\ UNCHANGED <<attempt, events>>

Continue(next) ==
  /\ pc' = next
  /\ UNCHANGED <<status, price_value, raw_text, attempt, events, outcomes>>

Init ==
  /\ products \in ProductFiles
  /\ pidx = 1 /\ sidx = 1
  /\ pc = "pair"
  /\ product_data = <<>> /\ results = <<>>
  /\ product_url = <<>> /\ status = "ok" /\ price_value = None /\ raw_text = None
  /\ attempt = 1
  /\ loop_i = 1 /\ elems = 0 /\ tried = 0
  /\ events = <<>> /\ ops = {} /\ consulted = <<>> /\ outcomes = <<>>
  /\ captures = <<>>
  /\ steps = <<>> /\ clicks = 0 /\ loc_log = <<>>
  /\ ptxt = <<>> /\ pres = [called |-> FALSE, value |-> None]
  /\ html = <<>> /\ page_res = [called |-> FALSE, value |-> NoPrice]
  /\ obj = JNull /\ found = [called |-> FALSE, value |-> NoPrice]

\* A pair that starts with what the previous pair left.
StartPair_KeepsPrevious ==
  /\ pc = "pair"
  /\ product_url' = Strip(OrEmpty(products[pidx][sidx]))
  /\ IF product_url' = <<>>
     THEN /\ Advance(Result("no_url", None, Some(<<>>), <<>>))
          /\ UNCHANGED <<status, price_value, raw_text, attempt, ghostvars>>
     ELSE /\ attempt' = 1
          /\ pc' = "load"
          /\ UNCHANGED <<status, price_value, raw_text, posvars, ghostvars>>
  /\ UNCHANGED <<cfgvars, loopvars, pvars>>

\* Lines 310-330.
StartPair ==
  /\ pc = "pair"
  /\ product_url' = Strip(OrEmpty(products[pidx][sidx]))
  /\ IF product_url' = <<>>
     THEN /\ Advance(Result("no_url", None, Some(<<>>), <<>>))
          /\ UNCHANGED <<status, price_value, raw_text, attempt, ghostvars>>
     ELSE /\ status' = "ok" /\ price_value' = None /\ raw_text' = None
          /\ attempt' = 1
          /\ pc' = "load"
          /\ UNCHANGED <<posvars, ghostvars>>
  /\ UNCHANGED <<cfgvars, loopvars, pvars>>

\* Line 334: driver.get.
Load ==
  /\ pc = "load"
  /\ ops' = ops \cup {"load"}
  /\ consulted' = <<>>
  /\ steps' = <<"load">> /\ clicks' = 0 /\ loc_log' = <<>>
  /\ LET evs == Append(events, [ev |-> "load", n |-> attempt])
     IN  \/ /\ events' = evs
            /\ pc' = IF website_name \in VariantSites THEN "wait_body" ELSE "sd"
            /\ UNCHANGED <<status, price_value, raw_text, attempt, outcomes>>
         \/ \E k \in ErrorKinds : Fail(k, evs)
  /\ UNCHANGED <<cfgvars, posvars, product_url, loopvars, captures, pvars>>

\* Lines 337-339: the wait for the body; click_variant_if_found returns at
\* once when the product name gives no needle.
WaitBody ==
  /\ pc = "wait_body"
  /\ ops' = ops \cup {"wait"}
  /\ \/ Continue(IF lower_needles[pidx] = <<>> THEN "wait_currency" ELSE "vs_find")
     \/ \E k \in ErrorKinds : Fail(k, events)
  /\ steps' = AddStep(steps, "body")
  /\ UNCHANGED <<cfgvars, posvars, product_url, loopvars, consulted, captures,
                 clicks, loc_log, pvars>>

\* A variant selection whose timed-out wait fails the attempt.
FindVariantElems_TimeoutFails ==
  /\ pc = "vs_find"
  /\ ops' = ops \cup {"wait"}
  /\ \/ \E n \in 1..MaxElems :
          /\ elems' = n
          /\ Continue("vs_elem")
     \/ /\ elems' = 0
        /\ Fail("TimeoutException", events)
  /\ tried' = 0
  /\ loop_i' = 1
  /\ UNCHANGED <<cfgvars, posvars, product_url, consulted, captures, attemptvars, pvars>>

\* Lines 170-174: the wait for clickable elements; a timeout gives none.
FindVariantElems ==
  /\ pc = "vs_find"
  /\ ops' = ops \cup {"wait"}
  /\ \E n \in 0..MaxElems :
       /\ elems' = n
       /\ Continue(IF n = 0 THEN "wait_currency" ELSE "vs_elem")
  /\ tried' = 0
  /\ loop_i' = 1
  /\ UNCHANGED <<cfgvars, posvars, product_url, consulted, captures, attemptvars, pvars>>

\* The driver calls lines 179-182 make on an element that behaves as b.
ElemOps(b, needles) ==
  IF b.text_raises \/ ~TextMatches(b.text, needles) THEN {"text"}
  ELSE IF b.script_raises THEN {"text", "script"}
  ELSE {"text", "script", "click"}

\* Whether lines 179-183 get to count a click on it.
ElemClicked(b, needles) ==
  /\ ~b.text_raises
  /\ TextMatches(b.text, needles)
  /\ ~b.script_raises
  /\ ~b.click_raises

\* Lines 175-186, one element; the function returns after the last one or
\* at the cap, and its locals end with the wait that follows.
TryVariantElem ==
  /\ pc = "vs_elem"
  /\ IF tried >= VARIANT_CLICK_CAP
     THEN /\ Continue("wait_currency")
          /\ elems' = 0 /\ loop_i' = 1
          /\ UNCHANGED <<ops, tried, steps, clicks>>
     ELSE \E b \in ElemBehaviours :
            LET needles == lower_needles[pidx]
                issued == "click" \in ElemOps(b, needles)
            IN  /\ ops' = ops \cup ElemOps(b, needles)
                /\ tried' = IF ElemClicked(b, needles) THEN tried + 1 ELSE tried
                /\ clicks' = IF issued THEN clicks + 1 ELSE clicks
                /\ steps' = IF issued THEN AddStep(steps, "click") ELSE steps
                /\ IF loop_i < elems
                   THEN /\ loop_i' = loop_i + 1
                        /\ elems' = elems
                        /\ Continue("vs_elem")
                   ELSE /\ elems' = 0 /\ loop_i' = 1
                        /\ Continue("wait_currency")
  /\ UNCHANGED <<cfgvars, posvars, product_url, consulted, captures, loc_log, pvars>>

\* A wait for the rupee sign whose timeout fails the attempt.
WaitCurrency_TimeoutFails ==
  /\ pc = "wait_currency"
  /\ ops' = ops \cup {"wait", "markup"}
  /\ \/ /\ steps' = AddStep(steps, "currency")
        /\ Continue("sd")
     \/ /\ steps' = AddStep(steps, "currency_timeout")
        /\ Fail("TimeoutException", events)
  /\ tried' = 0 /\ clicks' = 0
  /\ UNCHANGED <<cfgvars, posvars, product_url, loop_i, elems, consulted, captures,
                 loc_log, pvars>>

\* Lines 340-343: the wait for the rupee sign; its timeout is swallowed.
WaitCurrency ==
  /\ pc = "wait_currency"
  /\ ops' = ops \cup {"wait", "markup"}
  /\ \E timed_out \in BOOLEAN :
       /\ steps' = AddStep(steps, IF timed_out THEN "currency_timeout" ELSE "currency")
       /\ Continue("sd")
  /\ tried' = 0 /\ clicks' = 0
  /\ UNCHANGED <<cfgvars, posvars, product_url, loop_i, elems, consulted, captures,
                 loc_log, pvars>>

\* A structured-data call whose price does not stop the chain.
JsonLdCall_KeepsGoing(next) ==
  /\ ops' = ops \cup {"query"}
  /\ loop_i' = 1
  /\ \E r \in QueryResponses :
       LET got == get_price_from_jsonld(r)
       IN  /\ consulted' = Append(consulted, [s |-> "SD", out |-> got.p])
           /\ Continue(next)
  /\ steps' = AddStep(steps, "query")
  /\ UNCHANGED <<cfgvars, posvars, product_url, elems, tried, captures, clicks,
                 loc_log, pvars>>

\* A call of get_price_from_jsonld by scrape_all (line 346) or by get_price
\* (line 245); without a price the caller goes on to next.
JsonLdCall(next) ==
  /\ ops' = ops \cup {"query"}
  /\ loop_i' = 1
  /\ \E r \in QueryResponses :
       LET got == get_price_from_jsonld(r)
       IN  /\ consulted' = Append(consulted, [s |-> "SD", out |-> got.p])
           /\ IF got.p # None THEN Complete(got.p, got.raw) ELSE Continue(next)
  /\ steps' = AddStep(steps, "query")
  /\ UNCHANGED <<cfgvars, posvars, product_url, elems, tried, captures, clicks,
                 loc_log, pvars>>

\* One selector of get_price_from_meta (lines 139-147), called by scrape_all
\* (line 348) or by get_price (line 248); after the last selector without a
\* price the caller goes on to next, with after added to what was consulted.
MetaCall(next, after) ==
  /\ ops' = ops \cup {"query"}
  /\ \E r \in QueryResponses :
       LET got == MetaSelector(r)
       IN  IF got.p # None
           THEN /\ consulted' = Append(consulted, [s |-> "Meta", out |-> got.p])
                /\ loop_i' = 1
                /\ Complete(got.p, got.raw)
           ELSE IF loop_i < NumMetaSelectors
           THEN /\ consulted' = consulted
                /\ loop_i' = loop_i + 1
                /\ UNCHANGED <<pc, status, price_value, raw_text, attempt,
                               events, outcomes>>
           ELSE /\ consulted' = Append(consulted, [s |-> "Meta", out |-> None]) \o after
                /\ loop_i' = 1
                /\ Continue(next)
  /\ steps' = AddStep(steps, "query")
  /\ UNCHANGED <<cfgvars, posvars, product_url, elems, tried, captures, clicks,
                 loc_log, pvars>>

\* A call of get_price_from_pagesource by get_price (line 251) or by
\* scrape_all (line 353): reading driver.page_source may raise, which ends
\* the attempt; without a price, last tells whether the attempt is over.
PageSourceCall(next, last) ==
  /\ ops' = ops \cup {"markup"}
  /\ \E r \in MarkupResponses :
       IF r.raises
       THEN /\ Fail(r.kind, events)
            /\ consulted' = consulted
       ELSE LET got == get_price_from_pagesource(r)
            IN  /\ consulted' = Append(consulted, [s |-> "PT", out |-> got.p])
                /\ IF got.p # None THEN Complete(got.p, got.raw)
                   ELSE IF last THEN Complete(None, None)
                   ELSE Continue(next)
  /\ steps' = AddStep(steps, "query")
  /\ UNCHANGED <<cfgvars, posvars, product_url, loopvars, captures, clicks,
                 loc_log, pvars>>

\* Line 346.
FastJsonLd == pc = "sd" /\ JsonLdCall("meta")

\* Lines 347-350: without a price, scrape_all calls get_price, which starts
\* on the site's locators (none: on its own fallbacks).
FastMeta ==
  /\ pc = "meta"
  /\ MetaCall(IF locs = <<>> THEN "gp_sd" ELSE "loc",
              IF locs = <<>> THEN <<[s |-> "LE", out |-> None]>> ELSE <<>>)

\* What one locator of a get_price call did: it was skipped (line 231), its
\* wait or text read raised (line 242), or its element had a text.
LogEntry(i, kind, text) == [i |-> i, kind |-> kind, text |-> text]

\* Lines 227-243, one locator of the site.
GetPriceLocator ==
  /\ pc = "loc"
  /\ LET usable == LocatorUsable(locs[loop_i])
         NextLocator(entry) ==
           /\ loop_i' = IF loop_i < Len(locs) THEN loop_i + 1 ELSE 1
           /\ consulted' = IF loop_i < Len(locs) THEN consulted
                           ELSE Append(consulted, [s |-> "LE", out |-> None])
           /\ loc_log' = IF loop_i < Len(locs) THEN Append(loc_log, entry) ELSE <<>>
           /\ Continue(IF loop_i < Len(locs) THEN "loc" ELSE "gp_sd")
     IN  IF ~usable
         THEN /\ NextLocator(LogEntry(loop_i, "skipped", <<>>))
              /\ ops' = ops
         ELSE \E r \in ElementResponses :
                LET got == LocatedElement(r)
                    entry == IF r.raises THEN LogEntry(loop_i, "raised", <<>>)
                             ELSE LogEntry(loop_i, "text", r.text)
                IN  /\ ops' = ops \cup (IF r.raises THEN {"wait"} ELSE {"wait", "text"})
                    /\ IF got.p # None
                       THEN /\ consulted' = Append(consulted, [s |-> "LE", out |-> got.p])
                            /\ loop_i' = 1
                            /\ loc_log' = Append(loc_log, entry)
                            /\ Complete(got.p, got.raw)
                       ELSE NextLocator(entry)
  /\ steps' = AddStep(steps, "query")
  /\ UNCHANGED <<cfgvars, posvars, product_url, elems, tried, captures, clicks, pvars>>

\* Lines 245-247.
GetPriceJsonLd == pc = "gp_sd" /\ JsonLdCall("gp_meta")

\* Lines 248-250.
GetPriceMeta == pc = "gp_meta" /\ MetaCall("gp_ps", <<>>)

\* Lines 251-254 and 351.
GetPricePageSource == pc = "gp_ps" /\ PageSourceCall("ps", FALSE)

\* Lines 352-358.
LastPageSource == pc = "ps" /\ PageSourceCall("ps", TRUE)

\* A capture whose exception leaves scrape_all.
AfterCapture_Propagates(o) == IF o = "saved" THEN "record" ELSE "crashed"

\* Lines 368-369: an exception of the capture is swallowed.
AfterCapture(o) == "record"

\* Line 364, for each product and website.
fn_base ==
  [i \in 1..NumProducts |->
    [j \in 1..NumSites |->
      slugify(ProductNames[i]) \o <<"_", "_">> \o slugify(locator_cfg[j].website_name)]]

\* Lines 362-369: every attempt raised; the screenshot, then the markup.
Capture ==
  /\ pc = "capture"
  /\ \E o \in {"saved", "screenshot_raises", "markup_raises"} :
       /\ captures' = Append(captures, [key |-> fn_base[pidx][sidx],
                                        screenshot |-> o # "screenshot_raises",
                                        markup |-> o = "saved"])
       /\ ops' = ops \cup (IF o = "screenshot_raises" THEN {"screenshot"}
                          ELSE {"screenshot", "markup"})
       /\ pc' = AfterCapture(o)
  /\ UNCHANGED <<cfgvars, posvars, product_url, status, price_value, raw_text,
                 attempt, loopvars, events, consulted, outcomes, attemptvars, pvars>>

\* Lines 371-382.
RecordResult ==
  /\ pc = "record"
  /\ Advance(Result(status, price_value, raw_text, product_url))
  /\ events' = <<>> /\ ops' = {} /\ consulted' = <<>>
  /\ outcomes' = <<>> /\ captures' = <<>>
  /\ steps' = <<>> /\ clicks' = 0 /\ loc_log' = <<>>
  /\ UNCHANGED <<cfgvars, product_url, status, price_value, raw_text, attempt,
                 loopvars, pvars>>

Next ==
  \/ StartPair
  \/ Load
  \/ WaitBody
  \/ FindVariantElems
  \/ TryVariantElem
  \/ WaitCurrency
  \/ FastJsonLd
  \/ FastMeta
  \/ GetPriceLocator
  \/ GetPriceJsonLd
  \/ GetPriceMeta
  \/ GetPricePageSource
  \/ LastPageSource
  \/ Capture
  \/ RecordResult

Spec == Init /\ [][Next]_vars

----------------------------------------------------------------------------
\* parse_price on its own: called once on a text of ParserInputs, with
\* scrape_all not running.

\* scrape_all not running.
Idle ==
  /\ products = [i \in 1..NumProducts |-> [j \in 1..NumSites |-> Missing]]
  /\ pidx = 1 /\ sidx = 1
  /\ pc = "idle"
  /\ product_data = <<>> /\ results = <<>>
  /\ product_url = <<>> /\ status = "ok" /\ price_value = None /\ raw_text = None
  /\ attempt = 1
  /\ loop_i = 1 /\ elems = 0 /\ tried = 0
  /\ events = <<>> /\ ops = {} /\ consulted = <<>> /\ outcomes = <<>>
  /\ captures = <<>>
  /\ steps = <<>> /\ clicks = 0 /\ loc_log = <<>>

ParseInit ==
  /\ ptxt \in ParserInputs
  /\ pres = [called |-> FALSE, value |-> None]
  /\ html = <<>> /\ page_res = [called |-> FALSE, value |-> NoPrice]
  /\ obj = JNull /\ found = [called |-> FALSE, value |-> NoPrice]
  /\ Idle

\* A call parse_price(ptxt).
CallParsePrice ==
  /\ ~pres.called
  /\ pres' = [called |-> TRUE, value |-> parse_price(ptxt)]
  /\ UNCHANGED <<ptxt, html, page_res, obj, found, ovars>>

ParseNext == CallParsePrice

ParseSpec == ParseInit /\ [][ParseNext]_vars

----------------------------------------------------------------------------
\* get_price_from_pagesource on its own: called once on a markup made of up
\* to MaxSegs segments, with up to MaxDigits digits.

PageInit ==
  /\ \E ss \in SeqsUpTo(Segments, MaxSegs) :
       /\ Len(SelectSeq(Flatten(ss), IsDigit)) <= MaxDigits
       /\ html = Flatten(ss)
  /\ page_res = [called |-> FALSE, value |-> NoPrice]
  /\ ptxt = <<>> /\ pres = [called |-> FALSE, value |-> None]
  /\ obj = JNull /\ found = [called |-> FALSE, value |-> NoPrice]
  /\ Idle

\* A call get_price_from_pagesource(driver) with driver.page_source = html.
CallPageSource ==
  /\ ~page_res.called
  /\ page_res' = [called |-> TRUE, value |-> ReadPageSource(html)]
  /\ UNCHANGED <<html, ptxt, pres, obj, found, ovars>>

PageNext == CallPageSource

PageSpec == PageInit /\ [][PageNext]_vars

----------------------------------------------------------------------------
\* find_price_in_obj on its own: called once on a JSON value.

\* A value of up to MaxNodes values: a string, an empty list or dict, or a
\* list or a dict of a first value and the values after it.
JsonInit ==
  /\ \/ obj \in Scalars \cup {JList(<<>>), JDict(<<>>)}
     \/ \E k \in 1..(MaxNodes - 1) : \E m \in 0..(MaxNodes - 1 - k) :
          \E tg \in FirstAndRest(TreeLevels(MaxNodes - 1), k, m) :
            LET vs == <<tg[1]>> \o tg[2]
            IN  \/ obj = JList(vs)
                \/ \E ks \in KeySeqs(Len(vs)) : obj = Keyed(ks, vs)
  /\ found = [called |-> FALSE, value |-> NoPrice]
  /\ ptxt = <<>> /\ pres = [called |-> FALSE, value |-> None]
  /\ html = <<>> /\ page_res = [called |-> FALSE, value |-> NoPrice]
  /\ Idle

\* A call find_price_in_obj(obj).
CallFindPrice ==
  /\ ~found.called
  /\ found' = [called |-> TRUE, value |-> find_price_in_obj(obj)]
  /\ UNCHANGED <<obj, ptxt, pres, html, page_res, ovars>>

JsonNext == CallFindPrice

JsonSpec == JsonInit /\ [][JsonNext]_vars

----------------------------------------------------------------------------
\* Properties of scrape_all, checked under Spec

\* The pairs whose result is stored, and the result of one.
Recorded ==
  {pr \in (1..NumProducts) \X (1..NumSites) :
     pr[1] < pidx \/ (pr[1] = pidx /\ pr[2] <= Len(product_data))}

ResultOf(pr) ==
  IF pr[1] <= Len(results) THEN results[pr[1]][pr[2]] ELSE product_data[pr[2]]

LoadEvents == SelectSeq(events, LAMBDA e : e.ev = "load")
SleepEvents == SelectSeq(events, LAMBDA e : e.ev = "sleep")

P999 == Some([m |-> 999, e |-> 0])
P899 == Some([m |-> 899, e |-> 0])

\* C1: every stored result has status "ok" exactly when it carries a price.
C1_OkIffPrice ==
  \A pr \in Recorded :
    (ResultOf(pr).status = "ok") <=> (ResultOf(pr).price_value # None)

\* A product with one website resolved to a price and the other ending in an
\* error without one.
C1_Witness ==
  \E a \in Recorded, b \in Recorded :
    /\ ResultOf(a).status = "ok" /\ ResultOf(a).price_value = P999
    /\ ResultOf(b).status = "error:TimeoutException"
    /\ ResultOf(b).price_value = None

\* C2: a pair takes at most 3 loads, no exception leaves its processing, it
\* always goes on until its result is stored, and every pair processed has
\* exactly one stored result.
C2_ThreeAttemptsOneResult ==
  /\ Len(LoadEvents) <= 3
  /\ Len(outcomes) <= 3
  /\ pc # "crashed"
  /\ pc # "done" => ENABLED Next
  /\ Len(results) = pidx - 1
  /\ Len(product_data) = sidx - 1
  /\ \A i \in 1..Len(results) : Len(results[i]) = NumSites
  /\ pc = "record" =>
       status \in {"ok", "price_not_found"} \cup {"error:" \o k : k \in ErrorKinds}

\* Three attempts raised (the last while reading the markup, after its
\* queries), the screenshot of the capture raised too, and the pair is about
\* to store its result.
C2_Witness ==
  /\ pc = "record"
  /\ Len(LoadEvents) = 3
  /\ {"load", "query", "wait", "markup", "screenshot"} \subseteq ops
  /\ Len(captures) = 1 /\ ~captures[1].screenshot
  /\ status = "error:WebDriverException"

\* The loads and sleeps of k failed attempts followed by one more attempt.
RetryEvents(k) ==
  IF k = 1
  THEN << [ev |-> "load", n |-> 1], [ev |-> "sleep", n |-> 15],
          [ev |-> "load", n |-> 2] >>
  ELSE << [ev |-> "load", n |-> 1], [ev |-> "sleep", n |-> 15],
          [ev |-> "load", n |-> 2], [ev |-> "sleep", n |-> 30],
          [ev |-> "load", n |-> 3] >>

\* C3: when the first k attempts (k = 1 or 2) raised and attempt k+1 found a
\* structured-data price P, the result is "ok" with P, the events are the
\* loads with sleeps of 1.5 s (then 3.0 s) between them, and nothing is
\* captured.
C3_RetryThenPrice ==
  ( /\ pc = "record"
    /\ Len(outcomes) \in {2, 3}
    /\ outcomes[Len(outcomes)] = "completed"
    /\ consulted # <<>>
    /\ consulted[1].s = "SD" /\ consulted[1].out # None )
  => /\ status = "ok"
     /\ price_value = consulted[1].out
     /\ events = RetryEvents(Len(outcomes) - 1)
     /\ captures = <<>>

\* Two attempts raised and the third read 999 from structured data.
C3_Witness ==
  /\ pc = "record"
  /\ outcomes = <<"TimeoutException", "WebDriverException", "completed">>
  /\ consulted = <<[s |-> "SD", out |-> P999]>>
  /\ status = "ok" /\ price_value = P999
  /\ SleepEvents = <<[ev |-> "sleep", n |-> 15], [ev |-> "sleep", n |-> 30]>>

\* The capture key of each product and website: slugified names joined by "__".
ExpectedKey ==
  << << <<"W", "h", "e", "y", "_", "2", "_", "k", "g", "_", "C", "h", "o", "c", "o",
          "_", "_", "F", "l", "i", "p", "k", "a", "r", "t">>,
        <<"W", "h", "e", "y", "_", "2", "_", "k", "g", "_", "C", "h", "o", "c", "o",
          "_", "_", "A", "m", "a", "z", "o", "n">> >>,
     << <<"O", "a", "t", "s", "_", "_", "F", "l", "i", "p", "k", "a", "r", "t">>,
        <<"O", "a", "t", "s", "_", "_", "A", "m", "a", "z", "o", "n">> >> >>

AllRaised == Len(outcomes) = 3 /\ \A i \in 1..3 : outcomes[i] \in ErrorKinds

\* C4: when all 3 attempts raised, the status is "error:" with the kind the
\* third attempt raised, there is no price, and exactly one capture was
\* requested, under the key of the pair.
C4_ExhaustedStatusAndCapture ==
  (pc = "record" /\ AllRaised)
  => /\ status = "error:" \o outcomes[3]
     /\ price_value = None
     /\ Len(captures) = 1
     /\ captures[1].key = ExpectedKey[pidx][sidx]

\* The third attempt raised another kind than the first two.
C4_Witness ==
  /\ pc = "record"
  /\ outcomes = <<"TimeoutException", "TimeoutException", "WebDriverException">>
  /\ status = "error:WebDriverException"
  /\ Len(captures) = 1 /\ captures[1].screenshot /\ captures[1].markup

\* C5: a capture is requested only once all 3 attempts of the pair raised:
\* never with a result "ok", "price_not_found" or "no_url", never before the
\* third failure.
C5_CaptureOnlyWhenExhausted ==
  /\ captures # <<>> =>
       /\ AllRaised
       /\ Len(LoadEvents) = 3
       /\ pc = "record"
       /\ status \notin {"ok", "price_not_found", "no_url"}
  /\ Len(captures) <= 1

\* The capture of an exhausted pair, while an earlier pair ended "ok".
C5_Witness ==
  /\ captures # <<>>
  /\ pc = "record"
  /\ \E pr \in Recorded : ResultOf(pr).status = "ok"

Rank(s) == CASE s = "SD" -> 1 [] s = "Meta" -> 2 [] s = "LE" -> 3 [] s = "PT" -> 4

\* C6: in an attempt that ran to its end, a strategy is called only after
\* every strategy of higher priority was called and gave no price, the first
\* call that gives a price is the last call, and its price is the result.
C6_PriorityOrder ==
  (pc = "record" /\ outcomes[Len(outcomes)] = "completed")
  => LET n == Len(consulted)
     IN  /\ n >= 1
         /\ consulted[1].s = "SD"
         /\ \A k \in 1..n : \A j \in 1..(k - 1) : consulted[j].out = None
         /\ \A k \in 1..n : \A r \in 1..(Rank(consulted[k].s) - 1) :
              \E j \in 1..(k - 1) : Rank(consulted[j].s) = r
         /\ price_value = consulted[n].out
         /\ status = "price_not_found" =>
              {consulted[k].s : k \in 1..n} = {"SD", "Meta", "LE", "PT"}

\* Structured data and meta tags gave nothing and a located element read 899.
C6_Witness ==
  /\ pc = "record"
  /\ Len(consulted) = 3
  /\ consulted[3] = [s |-> "LE", out |-> P899]
  /\ price_value = P899 /\ raw_text = Some(<<"8", "9", "9">>)

\* C7: an attempt that ran to its end ends the pair: it is the pair's last
\* attempt, no load or sleep follows it, nothing is captured, and without a
\* price the status is "price_not_found".
C7_CompletedIsTerminal ==
  /\ \A i \in 1..Len(outcomes) :
       outcomes[i] = "completed" =>
         /\ i = Len(outcomes)
         /\ pc = "record"
         /\ Len(LoadEvents) = i
         /\ Len(SleepEvents) = i - 1
         /\ events[Len(events)].ev = "load"
         /\ captures = <<>>
         /\ price_value = None => status = "price_not_found"
  /\ (pc = "record" /\ status = "price_not_found") =>
       outcomes[Len(outcomes)] = "completed"

\* The first attempt found no price and the pair ends there.
C7_Witness ==
  /\ pc = "record"
  /\ status = "price_not_found"
  /\ outcomes = <<"completed">>
  /\ attempt = 1
  /\ events = <<[ev |-> "load", n |-> 1]>>

\* What products.json holds for a pair without a URL.
BlankUrls == {None, Some(<<>>), Some(<<" ", NBSP>>)}

\* C8: the step that starts a pair whose URL is missing or blank stores
\* "no_url" with no price for it and moves to the next pair, with no driver
\* call, no sleep and no capture.
C8_NoUrlBypass ==
  [][ (pc = "pair" /\ products[pidx][sidx] \in BlankUrls)
      => /\ pc' \in {"pair", "done"}
         /\ LET r == IF sidx < NumSites THEN product_data'[sidx]
                     ELSE results'[pidx][sidx]
            IN  r.status = "no_url" /\ r.price_value = None
         /\ UNCHANGED <<events, ops, captures>>
         /\ ops = {} /\ events = <<>> ]_vars

\* A pair whose URL is blanks only is stored as "no_url".
C8_Witness ==
  \E pr \in Recorded :
    /\ products[pr[1]][pr[2]] = Some(<<" ", NBSP>>)
    /\ ResultOf(pr).status = "no_url"
    /\ ResultOf(pr).price_value = None
    /\ ResultOf(pr).link = <<>>

\* C14: one run of the variant selector issues at most 5 clicks, however
\* many elements match and whether or not a scroll or a click raises.
C14_AtMostFiveClicks == clicks <= VARIANT_CLICK_CAP

\* C15: no step of the variant selector ends or fails the attempt: it leaves
\* the status, the price, the attempt number and the outcomes as they are,
\* goes on with the next element while there is one and the cap is not
\* reached, a click that raised counts for nothing, and the selector is
\* followed by the wait for the currency sign and then the first strategy.
C15_SelectorNeverFails ==
  [][ /\ pc \in {"vs_find", "vs_elem"} =>
           /\ pc' \in {"vs_elem", "wait_currency"}
           /\ UNCHANGED <<status, price_value, raw_text, attempt, outcomes, events,
                          captures, consulted>>
      /\ (pc = "vs_elem" /\ tried < VARIANT_CLICK_CAP /\ loop_i < elems) =>
           /\ pc' = "vs_elem"
           /\ loop_i' = loop_i + 1
           /\ elems' = elems
           /\ tried' \in {tried, tried + 1}
           /\ clicks' - clicks >= tried' - tried
      /\ pc = "wait_currency" =>
           /\ pc' = "sd"
           /\ UNCHANGED <<status, price_value, raw_text, attempt, outcomes, events>> ]_vars

\* The selector has returned after two clicks, one of which raised, and the
\* attempt goes on.
C15_Witness ==
  /\ pc = "wait_currency"
  /\ clicks = 2 /\ tried = 1
  /\ {"text", "script", "click"} \subseteq ops
  /\ Len(outcomes) = attempt - 1
  /\ status = "ok"

\* C16: every backoff sleep of a pair is followed by another load for the
\* pair, so that a pair has slept one time fewer than it has loaded.
C16_SleepOnlyBeforeRetry ==
  pc = "record" =>
    /\ Len(SleepEvents) = Len(LoadEvents) - 1
    /\ \A i \in 1..Len(events) :
         events[i].ev = "sleep" => (i < Len(events) /\ events[i + 1].ev = "load")

\* Whether a locator names a known type, in any case, and a value.
KnownLocator(loc) ==
  /\ loc.locator_type # None
  /\ Lower(Val(loc.locator_type)) \in {xpath, css}
  /\ loc.locator_value # None
  /\ Val(loc.locator_value) # <<>>

\* A locator that was passed over: skipped when not known, else its lookup
\* raised or its text does not parse.
PassedOver(entry, loc) ==
  IF KnownLocator(loc)
  THEN \/ entry.kind = "raised"
       \/ entry.kind = "text" /\ parse_price(Strip(entry.text)) = None
  ELSE entry.kind = "skipped"

\* C17: get_price goes through the locators in configured order; one that
\* is unknown, raises or has a text that does not parse is passed over with
\* the attempt going on; the price it returns from a locator is the one
\* parsed from the text of the first locator whose text parses.
C17_FirstParseableLocator ==
  /\ loc_log # <<>> => pc \in {"loc", "record"}
  /\ \A k \in 1..Len(loc_log) : loc_log[k].i = k
  /\ pc = "loc" =>
       /\ Len(loc_log) = loop_i - 1
       /\ \A k \in 1..Len(loc_log) : PassedOver(loc_log[k], locs[k])
       /\ Len(outcomes) = attempt - 1
       /\ price_value = None
  /\ (pc = "record" /\ loc_log # <<>>) =>
       LET n == Len(loc_log)
           raw == Strip(loc_log[n].text)
       IN  /\ \A k \in 1..(n - 1) : PassedOver(loc_log[k], locs[k])
           /\ KnownLocator(locs[n])
           /\ loc_log[n].kind = "text"
           /\ parse_price(raw) # None
           /\ price_value = parse_price(raw)
           /\ raw_text = Some(raw)
           /\ status = "ok"

\* The first locator's text did not parse, the second is of an unknown
\* type, the third (type in upper case) read " 899".
C17_Witness ==
  /\ pc = "record"
  /\ loc_log = << LogEntry(1, "text", TBad), LogEntry(2, "skipped", <<>>),
                  LogEntry(3, "text", T899) >>
  /\ price_value = P899
  /\ raw_text = Some(<<"8", "9", "9">>)

StepRank(k) ==
  CASE k = "load" -> 1
    [] k = "body" -> 2
    [] k = "click" -> 3
    [] k \in {"currency", "currency_timeout"} -> 4
    [] k = "query" -> 5

StepKinds == {steps[i] : i \in 1..Len(steps)}

ExtractionPcs == {"sd", "meta", "loc", "gp_sd", "gp_meta", "gp_ps", "ps"}

\* C19: the steps of an attempt come in the order load, wait for the body,
\* clicks, wait for the currency sign, extraction; extraction starts only
\* after a load that returned and, on a variant site, after the two waits;
\* a timeout of the currency wait leads to the first strategy; on another
\* site nothing but the load and the extraction happens and no click is
\* ever issued.
C19_StepOrder ==
  /\ \A i \in 1..Len(steps) : \A j \in (i + 1)..Len(steps) :
       StepRank(steps[i]) < StepRank(steps[j])
  /\ steps # <<>> => steps[1] = "load"
  /\ clicks > 0 => "click" \in StepKinds /\ pc \in {"vs_elem", "wait_currency"}
  /\ pc \in ExtractionPcs =>
       /\ events[Len(events)] = [ev |-> "load", n |-> attempt]
       /\ Len(outcomes) = attempt - 1
       /\ IF website_name \in VariantSites
          THEN /\ "body" \in StepKinds
               /\ StepKinds \cap {"currency", "currency_timeout"} # {}
          ELSE StepKinds \subseteq {"load", "query"}
  /\ (steps # <<>> /\ steps[Len(steps)] \in {"currency", "currency_timeout"}) =>
       pc = "sd"
  /\ (pc # "done" /\ website_name \notin VariantSites) =>
       /\ StepKinds \subseteq {"load", "query"}
       /\ {"click", "script"} \cap ops = {}
       /\ clicks = 0

\* An attempt on a variant site clicked, saw the currency wait time out and
\* found a price.
C19_Witness ==
  /\ pc = "record"
  /\ steps = <<"load", "body", "click", "currency_timeout", "query">>
  /\ status = "ok"

\* C20: while a pair is being processed nothing is set but the status, which
\* starts as "ok"; what is stored comes from its last attempt: the price
\* that attempt found (no earlier attempt found one) with the status that
\* goes with it, or no price and the error of the last attempt.
C20_OnlyLastAttempt ==
  /\ pc \notin {"pair", "record", "done", "idle"} =>
       /\ price_value = None /\ raw_text = None
       /\ outcomes = <<>> => status = "ok"
       /\ outcomes # <<>> => status = "error:" \o outcomes[Len(outcomes)]
  /\ pc \in {"load", "capture"} => \A k \in 1..Len(consulted) : consulted[k].out = None
  /\ pc = "record" =>
       IF outcomes[Len(outcomes)] = "completed"
       THEN /\ price_value = consulted[Len(consulted)].out
            /\ status = IF price_value # None THEN "ok" ELSE "price_not_found"
            /\ (raw_text = None) <=> (price_value = None)
            /\ \A i \in 1..(Len(outcomes) - 1) : outcomes[i] \in ErrorKinds
       ELSE /\ price_value = None /\ raw_text = None
            /\ status = "error:" \o outcomes[Len(outcomes)]

\* After a pair stored with a price, a pair whose first two attempts raised
\* and whose third found no price is about to be stored without one.
C20_Witness ==
  /\ pc = "record"
  /\ Len(outcomes) = 3
  /\ status = "price_not_found"
  /\ price_value = None /\ raw_text = None
  /\ \E pr \in Recorded : ResultOf(pr).price_value = P999

----------------------------------------------------------------------------
\* Properties of parse_price, checked under ParseSpec

\* ^\d{1,3}(<sep>\d{3})*$
RECURSIVE IsGrouped(_, _)
IsGrouped(t, sep) ==
  IF Len(t) <= 3
  THEN Len(t) >= 1 /\ \A i \in 1..Len(t) : IsDigit(t[i])
  ELSE /\ t[Len(t) - 3] = sep
       /\ \A i \in (Len(t) - 2)..Len(t) : IsDigit(t[i])
       /\ IsGrouped(SubSeq(t, 1, Len(t) - 4), sep)

\* ^\d{1,3}(<grp>\d{3})*<dec>\d{2}$
MatchesConvention(t, grp, dec) ==
  /\ Len(t) >= 4
  /\ t[Len(t) - 2] = dec
  /\ IsDigit(t[Len(t) - 1]) /\ IsDigit(t[Len(t)])
  /\ IsGrouped(SubSeq(t, 1, Len(t) - 3), grp)

MatchesUS(t) == MatchesConvention(t, ",", ".")
MatchesEU(t) == MatchesConvention(t, ".", ",")

\* The number whose digits are those of t, the last two after the point.
DigitsAsCents(t) == Some(Dec(NatOf(SelectSeq(t, IsDigit)), 2))

SwapSeps(t) ==
  [i \in 1..Len(t) |-> IF t[i] = "," THEN "." ELSE IF t[i] = "." THEN "," ELSE t[i]]

\* C9: for a text in US convention parse_price returns the number read with
\* the grouping commas removed and the point kept.
C9_USConvention ==
  (pres.called /\ MatchesUS(ptxt)) => pres.value = DigitsAsCents(ptxt)

\* "7,007.70" parsed to 7007.7.
C9_Witness ==
  /\ pres.called
  /\ ptxt = <<"7", ",", "0", "0", "7", ".", "7", "0">>
  /\ pres.value = Some([m |-> 70077, e |-> 1])

\* C10: for a text in European convention parse_price returns what it
\* returns for the text with "," and "." swapped, the number read with the
\* grouping points removed and the comma as decimal point.
C10_EUConvention ==
  (pres.called /\ MatchesEU(ptxt)) =>
    /\ pres.value = parse_price(SwapSeps(ptxt))
    /\ pres.value = DigitsAsCents(ptxt)

\* "77,07" parsed to 77.07.
C10_Witness ==
  /\ pres.called
  /\ ptxt = <<"7", "7", ",", "0", "7">>
  /\ pres.value = Some([m |-> 7707, e |-> 2])

----------------------------------------------------------------------------
\* Properties of get_price_from_pagesource, checked under PageSpec

\* C12: whatever the markup, a price the page-text reader returns is greater
\* than 100, and a first currency-anchored number that parses to 100 or less
\* gives no price.
C12_NeverAtMost100 ==
  page_res.called =>
    /\ page_res.value.p # None =>
         LET v == Val(page_res.value.p)
         IN  v.m > 100 * Pow10(v.e)
    /\ page_res.value.p = None <=> page_res.value.raw = None
    /\ LET n == FirstCurrencyNumber(html)
       IN  (n # None /\ parse_price(Val(n)) # None
              /\ Val(parse_price(Val(n))).m <= 100 * Pow10(Val(parse_price(Val(n))).e))
           => page_res.value = NoPrice

\* "₹100" gives no price.
C12_Witness ==
  /\ page_res.called
  /\ html = <<Rupee, "1", "0", "0">>
  /\ page_res.value = NoPrice

\* C13: when a currency-anchored number stands within 80 characters after a
\* keyword, the page-text reader returns that number if it is greater than
\* 100, and otherwise it goes by the first currency-anchored number of the
\* markup.
C13_KeywordNumberPreferred ==
  page_res.called =>
    LET m == KeywordSearch(html)
    IN  IF m # None
        THEN LET v == parse_price(Val(m).number)
             IN  (v # None /\ Val(v).m > 100 * Pow10(Val(v).e)) => page_res.value.p = v
        ELSE page_res.value =
               get_price_from_pagesource([raises |-> FALSE, num |-> FirstCurrencyNumber(html)])

----------------------------------------------------------------------------
\* Properties of find_price_in_obj, checked under JsonSpec

\* The dicts of a value in depth-first pre-order: a dict, then what its
\* values hold in stored order; what the items of a list hold, in order.
RECURSIVE Objects(_)
RECURSIVE ObjectsOfAll(_)
Objects(v) ==
  IF v.kind = "dict"
  THEN <<v>> \o ObjectsOfAll([i \in 1..Len(v.items) |-> v.items[i].value])
  ELSE IF v.kind = "list" THEN ObjectsOfAll(v.items)
  ELSE <<>>

ObjectsOfAll(vs) == IF vs = <<>> THEN <<>> ELSE Objects(vs[1]) \o ObjectsOfAll(Tail(vs))

\* The price field of a dict, as text, when it has one that parses.
PriceText(d) ==
  LET at == {i \in 1..Len(d.items) : d.items[i].key = PriceKey}
  IN  IF at = {} THEN None
      ELSE LET t == str(d.items[CHOOSE i \in at : TRUE].value)
           IN  IF parse_price(t) = None THEN None ELSE Some(t)

\* C18: find_price_in_obj returns the price (and its text) of the first
\* dict in depth-first pre-order whose price field parses, whatever dicts
\* with a price field that does not parse come before it, and nothing only
\* when no dict of the value has a price field that parses.
C18_FirstPricedObject ==
  found.called =>
    LET ds == Objects(obj)
        ok == {i \in 1..Len(ds) : PriceText(ds[i]) # None}
    IN  IF ok = {} THEN found.value = NoPrice
        ELSE LET t == Val(PriceText(ds[Min(ok)]))
             IN  found.value = [p |-> parse_price(t), raw |-> Some(t)]

\* {"price": "NA", "offers": {"price": " 899"}}: the price that does not
\* parse is passed and 899 is found in the child.
C18_Witness ==
  /\ found.called
  /\ obj = JDict(<< [key |-> PriceKey, value |-> JStr(TBad)],
                    [key |-> OffersKey,
                     value |-> JDict(<< [key |-> PriceKey, value |-> JStr(T899)] >>)] >>)
  /\ found.value = [p |-> P899, raw |-> Some(T899)]

\* C11: on every text parse_price returns either no value or a number (the
\* ValueError of float is the only exception, and it is caught), and it
\* returns no value on every text without a digit.
C11_TotalAndDigitFree ==
  pres.called =>
       /\ \/ pres.value = None
          \/ /\ Len(pres.value) = 1
             /\ Val(pres.value).m \in Nat /\ Val(pres.value).e \in Nat
       /\ (\A i \in 1..Len(ptxt) : ptxt[i] \notin Digits) => pres.value = None
       /\ pres.value # None => \E i \in 1..Len(ptxt) : ptxt[i] \in Digits

\* ",." parsed to no value.
C11_Witness ==
  /\ pres.called
  /\ ptxt = <<",", ".">>
  /\ pres.value = None

====
